---- MODULE Spec2Model ----
(***************************************************************************)
(* Model of src/game.js: the React component `Index` of the rock physics   *)
(* toy.  The state is the component's refs and React state (rocksRef,      *)
(* animationRef, mouseRef, isPlaying, rockCount), the canvas size, the     *)
(* animation-frame callbacks and timers the component has pending in the   *)
(* browser, and a record of what the last physics step did.                *)
(*                                                                         *)
(* Numbers.  A JavaScript number is modelled as a fixed-point number: the  *)
(* integer n stands for n / SCALE.  A product or quotient is truncated     *)
(* toward zero to the next representable value.  (A double rounds to       *)
(* nearest with a relative error of 2^-53; truncation toward zero is the   *)
(* rounding that never adds magnitude, so that a loss the code computes    *)
(* is never turned into a gain by the representation.)                     *)
(*                                                                         *)
(* Arrays are 1-based sequences here: the rock at JavaScript index k is    *)
(* rocks[k + 1].  A rock's id and color are only read by drawRock and are  *)
(* left out, as is the drawing itself: a render pass changes no state.     *)
(*                                                                         *)
(* Scheduling.  Handlers, timers and animation-frame callbacks run one at  *)
(* a time, each to its end.  The canvas and its 2d context exist from the  *)
(* mount on, so the early returns on a missing canvas are never taken.     *)
(* A click's state update, the render it causes and that render's effect   *)
(* (cleanup first) run before the next animation frame, as React does for  *)
(* a click on a root made with createRoot.                                 *)
(***************************************************************************)
EXTENDS Integers, Sequences, FiniteSets, TLC

VARIABLES
    rocks,          \* rocksRef.current
    rockCount,      \* React state rockCount
    isPlaying,      \* React state isPlaying (of the last render)
    canvas,         \* canvasRef.current: [width, height]
    mouseRef,       \* mouseRef.current
    animationRef,   \* animationRef.current: id of the last requested frame (0: undefined)
    pendingFrames,  \* requested animation frames not yet run nor cancelled
    nextFrameId,    \* the id the next requestAnimationFrame returns
    outerTimers,    \* pending setTimeout(..., 1000) of the effect, by origin
    spawnTimers,    \* pending setTimeout(spawnRandomRock, i * 500), by origin
    toggles,        \* number of togglePlayPause clicks so far
    trace,          \* what the physics step of the last operation did
    lastTick,       \* the last operation: its name, physics steps and render passes
    baseline        \* rock count before the last toggle; -1 once a spawn request or clear followed

vars == <<rocks, rockCount, isPlaying, canvas, mouseRef, animationRef, pendingFrames,
          nextFrameId, outerTimers, spawnTimers, toggles, trace, lastTick, baseline>>

----------------------------------------------------------------------------
(* Bounds of the model *)

MaxRocks == 2
MaxFrameId == 4
MaxToggles == 2
MaxBodies == 3
MaxSteps == 2

----------------------------------------------------------------------------
(* Fixed-point arithmetic *)

SCALE == 1000

Abs(a) == IF a < 0 THEN -a ELSE a

Max(a, b) == IF a < b THEN b ELSE a

\* a / b for b > 0, truncated toward zero
Quot(a, b) == IF a >= 0 THEN a \div b ELSE -((-a) \div b)

\* the product of two fixed-point numbers
Mul(a, b) == Quot(a * b, SCALE)

\* Math.floor of a fixed-point number, as an integer
Floor(a) == a \div SCALE

RECURSIVE SqrtSearch(_, _, _)
\* the largest r in lo..hi with r * r <= n
SqrtSearch(n, lo, hi) ==
    IF lo >= hi THEN lo
    ELSE LET mid == (lo + hi + 1) \div 2
         IN  IF mid * mid <= n THEN SqrtSearch(n, mid, hi)
             ELSE SqrtSearch(n, lo, mid - 1)

\* the integer square root of n < 2^31
ISqrt(n) == SqrtSearch(n, 0, 46340)

\* Math.sqrt(dx * dx + dy * dy): exact to one unit while the squares fit,
\* with the relative precision of a shorter mantissa beyond
Hypot(dx, dy) ==
    LET m == Max(Abs(dx), Abs(dy))
        q == IF m <= 32767 THEN 1 ELSE IF m <= 131068 THEN 4 ELSE 64
        ax == Abs(dx) \div q
        ay == Abs(dy) \div q
    IN  ISqrt(ax * ax + ay * ay) * q

\* Math.atan2(dy, dx).  An angle is kept as its cosine and sine; atan2(0, 0)
\* is the angle 0.
Atan2NoZeroCase(dy, dx) ==
    LET h == Hypot(dx, dy)
    IN  IF h = 0 THEN [cos |-> 0, sin |-> 0]
        ELSE [cos |-> Quot(dx * SCALE, h), sin |-> Quot(dy * SCALE, h)]

Atan2(dy, dx) ==
    IF dx = 0 /\ dy = 0 THEN [cos |-> SCALE, sin |-> 0]
    ELSE LET h == Hypot(dx, dy)
         IN  [cos |-> Quot(dx * SCALE, h), sin |-> Quot(dy * SCALE, h)]

Cos(angle) == angle.cos

Sin(angle) == angle.sin

----------------------------------------------------------------------------
(* ROCK_TYPES and createRock *)

ROCK_TYPES ==
    [granite   |-> [density |-> 1200, bounce |-> 600],
     marble    |-> [density |-> 1000, bounce |-> 700],
     obsidian  |-> [density |-> 1500, bounce |-> 500],
     sandstone |-> [density |-> 800,  bounce |-> 800]]

\* Object.keys(ROCK_TYPES)
types == <<"granite", "marble", "obsidian", "sandstone">>

Bounce(rock) ==
    CASE rock.type = "granite" -> ROCK_TYPES.granite.bounce
      [] rock.type = "marble" -> ROCK_TYPES.marble.bounce
      [] rock.type = "obsidian" -> ROCK_TYPES.obsidian.bounce
      [] OTHER -> ROCK_TYPES.sandstone.bounce

Density(type) ==
    CASE type = "granite" -> ROCK_TYPES.granite.density
      [] type = "marble" -> ROCK_TYPES.marble.density
      [] type = "obsidian" -> ROCK_TYPES.obsidian.density
      [] OTHER -> ROCK_TYPES.sandstone.density

\* The rock createRock(x, y, vx, vy) builds; randType, randRadius and randRot
\* are the values of its three Math.random() calls, in [0, 1).
NewRock(x, y, vx, vy, randType, randRadius, randRot) ==
    LET type == types[Floor(randType * Len(types)) + 1]
        radius == 15 * SCALE + Mul(randRadius, 25 * SCALE)
    IN  [x |-> x, y |-> y, vx |-> vx, vy |-> vy,
         radius |-> radius,
         rotation |-> 0,
         rotationSpeed |-> Mul(randRot - SCALE \div 2, SCALE \div 10),
         mass |-> Mul(radius, Density(type)),
         type |-> type]

----------------------------------------------------------------------------
(* updatePhysics *)

gravity == 500

friction == 980

airResistance == 999

\* lines 67-79 without the air resistance
IntegrateNoDrag(rock) ==
    LET vy1 == rock.vy + gravity
    IN  [rock EXCEPT !.vy = vy1,
                     !.x = rock.x + rock.vx,
                     !.y = rock.y + vy1,
                     !.rotation = rock.rotation + rock.rotationSpeed]

\* gravity, air resistance, position and rotation of one rock
Integrate(rock) ==
    LET vy1 == rock.vy + gravity
        vx2 == Mul(rock.vx, airResistance)
        vy2 == Mul(vy1, airResistance)
    IN  [rock EXCEPT !.vx = vx2,
                     !.vy = vy2,
                     !.x = rock.x + vx2,
                     !.y = rock.y + vy2,
                     !.rotation = rock.rotation + rock.rotationSpeed]

BounceLeft(rock) ==
    IF rock.x - rock.radius < 0
    THEN [rock EXCEPT !.x = rock.radius,
                      !.vx = Mul(-rock.vx, Bounce(rock)),
                      !.rotationSpeed = Quot(rock.rotationSpeed * (-5), 10)]
    ELSE rock

BounceRight(rock, cv) ==
    IF rock.x + rock.radius > cv.width
    THEN [rock EXCEPT !.x = cv.width - rock.radius,
                      !.vx = Mul(-rock.vx, Bounce(rock)),
                      !.rotationSpeed = Quot(rock.rotationSpeed * (-5), 10)]
    ELSE rock

BounceCeiling(rock) ==
    IF rock.y - rock.radius < 0
    THEN [rock EXCEPT !.y = rock.radius,
                      !.vy = Mul(-rock.vy, Bounce(rock))]
    ELSE rock

BounceFloor(rock, cv) ==
    IF rock.y + rock.radius > cv.height
    THEN [rock EXCEPT !.y = cv.height - rock.radius,
                      !.vy = Mul(-rock.vy, Bounce(rock)),
                      !.vx = Mul(rock.vx, friction),
                      !.rotationSpeed = Quot(rock.rotationSpeed * 9, 10)]
    ELSE rock

\* the four wall tests, in the order of the code
BounceWalls(rock, cv) ==
    BounceFloor(BounceCeiling(BounceRight(BounceLeft(rock), cv)), cv)

\* lines 126-130 with the mass difference turned into a sum
ExchangeSum(v, m, ov, om) ==
    Quot(v * (m + om) + 2 * om * ov, m + om)

\* rockNewVx and its three siblings: the new velocity component of the rock
\* of mass m and velocity v after meeting the rock of mass om and velocity ov
Exchange(v, m, ov, om) ==
    Quot(v * (m - om) + 2 * om * ov, m + om)

\* lines 117-118 with a quarter of the overlap
SeparationQuarter(c, overlap) ==
    Quot(Mul(c, overlap) * 25, 100)

\* separationX, separationY: Math.cos(angle) * overlap * 0.5
Separation(c, overlap) ==
    Quot(Mul(c, overlap) * 5, 10)

\* the body of `if (distance < minDistance)`: the pair after the response
Collide(rock, other, dx, dy, distance, minDistance) ==
    LET angle == Atan2(dy, dx)
        overlap == minDistance - distance
        separationX == Separation(Cos(angle), overlap)
        separationY == Separation(Sin(angle), overlap)
        rockNewVx == Exchange(rock.vx, rock.mass, other.vx, other.mass)
        rockNewVy == Exchange(rock.vy, rock.mass, other.vy, other.mass)
        otherNewVx == Exchange(other.vx, other.mass, rock.vx, rock.mass)
        otherNewVy == Exchange(other.vy, other.mass, rock.vy, rock.mass)
    IN  << [rock EXCEPT !.x = rock.x - separationX,
                        !.y = rock.y - separationY,
                        !.vx = Quot(rockNewVx * 8, 10),
                        !.vy = Quot(rockNewVy * 8, 10)],
           [other EXCEPT !.x = other.x + separationX,
                         !.y = other.y + separationY,
                         !.vx = Quot(otherNewVx * 8, 10),
                         !.vy = Quot(otherNewVy * 8, 10)] >>

\* One pass of the inner loop body for the rocks at index and j.  st is the
\* step so far: the rocks and the record of the wall and pair tests made.
PairTest(st, index, j) ==
    LET rock == st.rocks[index]
        other == st.rocks[j]
        dx == other.x - rock.x
        dy == other.y - rock.y
        distance == Hypot(dx, dy)
        minDistance == rock.radius + other.radius
        hit == distance < minDistance
        after == IF hit THEN Collide(rock, other, dx, dy, distance, minDistance)
                 ELSE <<rock, other>>
    IN  [st EXCEPT !.rocks = [st.rocks EXCEPT ![index] = after[1], ![j] = after[2]],
                   !.pairs = Append(st.pairs,
                                [i |-> index, j |-> j, distance |-> distance,
                                 minDistance |-> minDistance, hit |-> hit,
                                 before |-> <<rock, other>>, after |-> after])]

\* a first index that starts the inner loop at the head of the array
FirstOtherFromHead(index) == 1

\* let j = index + 1
FirstOther(index) == index + 1

RECURSIVE InnerLoop(_, _, _)
\* for (let j = ...; j < rocksRef.current.length; j++)
InnerLoop(st, index, j) ==
    IF j > Len(st.rocks) THEN st
    ELSE InnerLoop(PairTest(st, index, j), index, j + 1)

\* the forEach callback for the rock at index
UpdateRock(st, index, cv) ==
    LET moved == Integrate(st.rocks[index])
        walled == BounceWalls(moved, cv)
        st1 == [st EXCEPT !.rocks = [st.rocks EXCEPT ![index] = walled],
                          !.walls = Append(st.walls,
                                       [i |-> index, hit |-> walled # moved,
                                        before |-> moved, after |-> walled])]
    IN  InnerLoop(st1, index, FirstOther(index))

RECURSIVE ForEach(_, _, _)
\* rocksRef.current.forEach(...) from index on
ForEach(st, index, cv) ==
    IF index > Len(st.rocks) THEN st
    ELSE ForEach(UpdateRock(st, index, cv), index + 1, cv)

\* the record of an operation that ran no physics step
NoStep == [stepped |-> FALSE, start |-> <<>>, rocks |-> <<>>, walls |-> <<>>, pairs |-> <<>>]

\* updatePhysics() on the collection rs: the rocks after the step (.rocks)
\* and the record of the step
updatePhysics(rs, cv) ==
    ForEach([stepped |-> TRUE, start |-> rs, rocks |-> rs, walls |-> <<>>, pairs |-> <<>>],
            1, cv)

----------------------------------------------------------------------------
(* animate, the effect and the handlers *)

\* window.innerWidth and window.innerHeight, which resizeCanvas copies
Window == [width |-> 400 * SCALE, height |-> 400 * SCALE]

\* animate() of a render whose isPlaying is `playing`: one physics step at
\* most, then one render pass, which reads the rocks and changes none
Animate(playing, rs, cv) ==
    IF playing
    THEN [trace |-> updatePhysics(rs, cv), steps |-> 1, renders |-> 1]
    ELSE [trace |-> [NoStep EXCEPT !.start = rs, !.rocks = rs], steps |-> 0, renders |-> 1]

\* an operation that does not call animate
Idle(op, rs) ==
    /\ trace' = [NoStep EXCEPT !.start = rs, !.rocks = rs]
    /\ lastTick' = [op |-> op, steps |-> 0, renders |-> 0]

\* an effect cleanup that leaves the requested frame pending
CleanupNoCancel(pending, ref) == pending

\* the effect's cleanup: cancelAnimationFrame(animationRef.current), if set
Cleanup(pending, ref) ==
    IF ref # 0 THEN {f \in pending : f.id # ref} ELSE pending

\* createRock: push the rock and report the new length (the code sets no
\* limit to the collection; the model stops at MaxRocks)
createRock(rock) ==
    /\ Len(rocks) < MaxRocks
    /\ rocks' = Append(rocks, rock)
    /\ rockCount' = Len(rocks) + 1

\* values of Math.random() in createRock: type, radius, rotation speed
RandType == {0}
RandRadius == {200}
RandRot == {0}

\* values of Math.random() in spawnRandomRock: x, vx, vy
RandDrop == {500}

\* pointer positions on the canvas, in pixels
Pointer == {[x |-> 50, y |-> 100]}

\* a requestAnimationFrame callback runs: animate of the render that requested it
AnimationFrame(lastId) ==
    /\ nextFrameId <= lastId
    /\ \E f \in pendingFrames :
         LET a == Animate(f.playing, rocks, canvas)
         IN  /\ rocks' = a.trace.rocks
             /\ trace' = a.trace
             /\ lastTick' = [op |-> "frame", steps |-> a.steps, renders |-> a.renders]
             /\ pendingFrames' = (pendingFrames \ {f})
                                   \cup {[id |-> nextFrameId, playing |-> f.playing]}
    /\ animationRef' = nextFrameId
    /\ nextFrameId' = nextFrameId + 1
    /\ UNCHANGED <<rockCount, isPlaying, canvas, mouseRef, outerTimers, spawnTimers,
                   toggles, baseline>>

Frame == AnimationFrame(MaxFrameId)

handleMouseDown ==
    /\ \E p \in Pointer :
         mouseRef' = [x |-> p.x * SCALE, y |-> p.y * SCALE, isDown |-> TRUE,
                      startX |-> p.x * SCALE, startY |-> p.y * SCALE]
    /\ Idle("handler", rocks)
    /\ UNCHANGED <<rocks, rockCount, isPlaying, canvas, animationRef, pendingFrames,
                   nextFrameId, outerTimers, spawnTimers, toggles, baseline>>

handleMouseMove ==
    /\ \E p \in Pointer :
         mouseRef' = [mouseRef EXCEPT !.x = p.x * SCALE, !.y = p.y * SCALE]
    /\ Idle("handler", rocks)
    /\ UNCHANGED <<rocks, rockCount, isPlaying, canvas, animationRef, pendingFrames,
                   nextFrameId, outerTimers, spawnTimers, toggles, baseline>>

\* onMouseUp and onMouseLeave
handleMouseUp ==
    /\ mouseRef.isDown
    /\ LET dx == mouseRef.x - mouseRef.startX
           dy == mouseRef.y - mouseRef.startY
       IN  \E rt \in RandType, rr \in RandRadius, ro \in RandRot :
             createRock(NewRock(mouseRef.startX, mouseRef.startY,
                                Quot(dx, 10), Quot(dy, 10), rt, rr, ro))
    /\ mouseRef' = [mouseRef EXCEPT !.isDown = FALSE]
    /\ baseline' = -1
    /\ Idle("handler", rocks)
    /\ UNCHANGED <<isPlaying, canvas, animationRef, pendingFrames, nextFrameId,
                   outerTimers, spawnTimers, toggles>>

\* clearRocks without the setRockCount(0)
clearRocksKeepCount ==
    /\ rocks' = <<>>
    /\ baseline' = -1
    /\ Idle("clearRocks", rocks)
    /\ UNCHANGED <<rockCount, isPlaying, canvas, mouseRef, animationRef, pendingFrames,
                   nextFrameId, outerTimers, spawnTimers, toggles>>

clearRocks ==
    /\ rocks' = <<>>
    /\ rockCount' = 0
    /\ baseline' = -1
    /\ Idle("clearRocks", rocks)
    /\ UNCHANGED <<isPlaying, canvas, mouseRef, animationRef, pendingFrames, nextFrameId,
                   outerTimers, spawnTimers, toggles>>

\* spawnRandomRock(): a rock above the canvas
spawnRandomRock ==
    \E rx \in RandDrop, rvx \in RandDrop, rvy \in RandDrop,
       rt \in RandType, rr \in RandRadius, ro \in RandRot :
         createRock(NewRock(Mul(rx, canvas.width), -50 * SCALE,
                            (rvx - SCALE \div 2) * 10, rvy * 5, rt, rr, ro))

\* the Drop Rock button
DropRock ==
    /\ spawnRandomRock
    /\ baseline' = -1
    /\ Idle("handler", rocks)
    /\ UNCHANGED <<isPlaying, canvas, mouseRef, animationRef, pendingFrames, nextFrameId,
                   outerTimers, spawnTimers, toggles>>

\* The Play/Pause button: setIsPlaying(prev => !prev), the render it causes
\* (a new animate, as isPlaying is one of its dependencies) and so the
\* effect: its cleanup, then resizeCanvas, animate() and the timer for the
\* initial rocks.  React runs the render and the effect of a click before
\* the next animation frame.
togglePlayPause ==
    /\ toggles < MaxToggles
    /\ nextFrameId <= MaxFrameId
    /\ toggles' = toggles + 1
    /\ isPlaying' = ~isPlaying
    /\ canvas' = Window
    /\ LET a == Animate(~isPlaying, rocks, Window)
       IN  /\ rocks' = a.trace.rocks
           /\ trace' = a.trace
           /\ lastTick' = [op |-> "togglePlayPause", steps |-> a.steps,
                           renders |-> a.renders]
    /\ pendingFrames' = Cleanup(pendingFrames, animationRef)
                          \cup {[id |-> nextFrameId, playing |-> ~isPlaying]}
    /\ animationRef' = nextFrameId
    /\ nextFrameId' = nextFrameId + 1
    /\ outerTimers' = [outerTimers EXCEPT !.toggle = @ + 1]
    /\ baseline' = Len(rocks)
    /\ UNCHANGED <<rockCount, mouseRef, spawnTimers>>

\* The effect's setTimeout(..., 1000) fires: three timers for
\* spawnRandomRock.  Timers of one delay fire in the order they were set:
\* the one set at mount is the first.
OuterTimer ==
    /\ \E o \in {"mount", "toggle"} :
         /\ outerTimers[o] > 0
         /\ o = "toggle" => outerTimers.mount = 0
         /\ outerTimers' = [outerTimers EXCEPT ![o] = @ - 1]
         /\ spawnTimers' = [spawnTimers EXCEPT ![o] = @ + 3]
    /\ Idle("handler", rocks)
    /\ UNCHANGED <<rocks, rockCount, isPlaying, canvas, mouseRef, animationRef,
                   pendingFrames, nextFrameId, toggles, baseline>>

\* a setTimeout(() => spawnRandomRock(), i * 500) fires.  A rock of the
\* timers set at mount is one of the initial rocks; it ends the comparison
\* with the count before the last toggle as a spawn request does.
SpawnTimer ==
    /\ \E o \in {"mount", "toggle"} :
         /\ spawnTimers[o] > 0
         /\ spawnTimers' = [spawnTimers EXCEPT ![o] = @ - 1]
         /\ baseline' = IF o = "mount" THEN -1 ELSE baseline
    /\ spawnRandomRock
    /\ Idle("handler", rocks)
    /\ UNCHANGED <<isPlaying, canvas, mouseRef, animationRef, pendingFrames, nextFrameId,
                   outerTimers, toggles>>

\* The component after it is mounted: no rocks, playing, the effect has run
\* once (canvas sized, animate() called on no rocks, a frame requested, the
\* timer for the initial rocks set).
Init ==
    /\ rocks = <<>>
    /\ rockCount = 0
    /\ isPlaying = TRUE
    /\ canvas = Window
    /\ mouseRef = [x |-> 0, y |-> 0, isDown |-> FALSE, startX |-> 0, startY |-> 0]
    /\ animationRef = 1
    /\ pendingFrames = {[id |-> 1, playing |-> TRUE]}
    /\ nextFrameId = 2
    /\ outerTimers = [mount |-> 1, toggle |-> 0]
    /\ spawnTimers = [mount |-> 0, toggle |-> 0]
    /\ toggles = 0
    /\ trace = [NoStep EXCEPT !.stepped = TRUE]
    /\ lastTick = [op |-> "mount", steps |-> 1, renders |-> 1]
    /\ baseline = -1

Next ==
    \/ Frame
    \/ handleMouseDown
    \/ handleMouseMove
    \/ handleMouseUp
    \/ clearRocks
    \/ DropRock
    \/ togglePlayPause
    \/ OuterTimer
    \/ SpawnTimer

Spec == Init /\ [][Next]_vars

----------------------------------------------------------------------------
(* updatePhysics as a function: the step applied to drawn collections *)

\* Arguments of createRock that a drag or the Drop Rock button can give, in
\* pixels and in pixels per frame times SCALE, with the random values of
\* the radius and the type: resting at the left wall, overlapping rocks of
\* every type, above the canvas, at the floor, at the right wall.
SpawnInputs ==
    { [x |-> 20,  y |-> 100, vx |-> 0,     vy |-> -500, rr |-> 200, rt |-> 0],
      [x |-> 20,  y |-> 100, vx |-> 0,     vy |-> 0,    rr |-> 40,  rt |-> 800],
      [x |-> 50,  y |-> 100, vx |-> 0,     vy |-> 0,    rr |-> 200, rt |-> 0],
      [x |-> 50,  y |-> 100, vx |-> -3000, vy |-> 0,    rr |-> 40,  rt |-> 800],
      [x |-> 200, y |-> -50, vx |-> 0,     vy |-> 2500, rr |-> 200, rt |-> 0],
      [x |-> 200, y |-> 380, vx |-> 3000,  vy |-> 1000, rr |-> 200, rt |-> 800],
      [x |-> 385, y |-> 100, vx |-> 1000,  vy |-> 0,    rr |-> 40,  rt |-> 0],
      [x |-> 60,  y |-> 110, vx |-> 4000,  vy |-> -2000, rr |-> 600, rt |-> 300],
      [x |-> 80,  y |-> 100, vx |-> -6000, vy |-> 1000, rr |-> 200, rt |-> 500],
      [x |-> 200, y |-> 370, vx |-> -2000, vy |-> 3000, rr |-> 440, rt |-> 300] }

Bodies ==
    { NewRock(a.x * SCALE, a.y * SCALE, a.vx, a.vy, a.rt, a.rr, 0) : a \in SpawnInputs }

\* the rock of the left-wall scenario: createRock(20, 100, -5, 0) with the
\* random values that give granite and the radius 20
ScenarioRock == NewRock(20 * SCALE, 100 * SCALE, -5 * SCALE, 0, 0, 200, 0)

InitPhysics ==
    /\ rocks \in {<<ScenarioRock>>} \cup UNION { [1..n -> Bodies] : n \in 1..MaxBodies }
    /\ rockCount = Len(rocks)
    /\ isPlaying = TRUE
    /\ canvas = Window
    /\ mouseRef = [x |-> 0, y |-> 0, isDown |-> FALSE, startX |-> 0, startY |-> 0]
    /\ animationRef = 1
    /\ pendingFrames = {[id |-> 1, playing |-> TRUE]}
    /\ nextFrameId = 2
    /\ outerTimers = [mount |-> 0, toggle |-> 0]
    /\ spawnTimers = [mount |-> 0, toggle |-> 0]
    /\ toggles = 0
    /\ trace = [NoStep EXCEPT !.start = rocks, !.rocks = rocks]
    /\ lastTick = [op |-> "createRock", steps |-> 0, renders |-> 0]
    /\ baseline = -1

Step == AnimationFrame(MaxSteps + 1)

SpecPhysics == InitPhysics /\ [][Step]_vars

----------------------------------------------------------------------------
(* Measures used by the properties *)

\* A natural number too large for one machine integer: hi * 10^6 + lo.
BigNorm(hi, lo) == <<hi + lo \div 1000000, lo % 1000000>>

\* m * s for 0 <= m < 10^6 and 0 <= s < 2^31
BigMul(m, s) ==
    LET c == m \div 1000
        d == m % 1000
        a == s \div 1000000
        b == s % 1000000
        e == (c * b) \div 1000
        f == (c * b) % 1000
    IN  BigNorm(c * 1000 * a + d * a + e, f * 1000 + d * b)

BigAdd(p, q) == BigNorm(p[1] + q[1], p[2] + q[2])

BigLeq(p, q) == p[1] < q[1] \/ (p[1] = q[1] /\ p[2] <= q[2])

\* twice the kinetic energy of a rock: mass * (vx^2 + vy^2)
Energy2(rock) == BigMul(rock.mass, rock.vx * rock.vx + rock.vy * rock.vy)

CenterDistance(r, o) == Hypot(o.x - r.x, o.y - r.y)

InBounds(rock, cv) ==
    /\ rock.radius <= rock.x /\ rock.x <= cv.width - rock.radius
    /\ rock.radius <= rock.y /\ rock.y <= cv.height - rock.radius

\* what the rounding of a cosine to three decimals can cost a separation
Tolerance == SCALE \div 10

----------------------------------------------------------------------------
(* Properties *)

\* C1: on a canvas at least twice as wide and as high as the largest radius,
\* after every completed physics step every rock's center is within
\* radius <= x <= width - radius and radius <= y <= height - radius, the
\* rocks moved by the pairwise correction included.
C1_BoundsAfterStep ==
    (/\ trace.stepped
     /\ \A k \in 1..Len(rocks) :
          2 * rocks[k].radius <= canvas.width /\ 2 * rocks[k].radius <= canvas.height)
    => \A k \in 1..Len(rocks) : InBounds(rocks[k], canvas)

\* C2: once paused, every frame tick leaves every rock as it was: no frame
\* callback applies a physics step, the one requested before the pause
\* included (the effect's cleanup has cancelled it).
C2_PauseFreezes ==
    (lastTick.op = "frame" /\ ~isPlaying)
    => (rocks = trace.start /\ ~trace.stepped /\ lastTick.steps = 0)

\* C2 witness: a frame tick has run while paused, with a rock to move
C2_PausedFrameRan ==
    /\ lastTick.op = "frame"
    /\ ~isPlaying
    /\ Len(rocks) > 0

\* C3: after a toggle, and as long as no spawn request (and no clear)
\* follows, the number of rocks is what it was before the toggle.
C3_CountKeptAcrossToggles ==
    baseline # -1 => Len(rocks) = baseline

\* C4: a wall collision of one rock and a pairwise collision of two rocks
\* never increase the kinetic energy of the rocks involved.
C4_EnergyNeverIncreases ==
    /\ \A k \in 1..Len(trace.walls) :
         trace.walls[k].hit =>
           BigLeq(Energy2(trace.walls[k].after), Energy2(trace.walls[k].before))
    /\ \A k \in 1..Len(trace.pairs) :
         trace.pairs[k].hit =>
           BigLeq(BigAdd(Energy2(trace.pairs[k].after[1]), Energy2(trace.pairs[k].after[2])),
                  BigAdd(Energy2(trace.pairs[k].before[1]), Energy2(trace.pairs[k].before[2])))

\* C4 witness: a step with a wall collision of a moving rock and a pairwise
\* collision of two rocks of different mass, one of them moving
C4_CollisionsHappened ==
    /\ \E k \in 1..Len(trace.walls) :
         trace.walls[k].hit /\ Energy2(trace.walls[k].before) # <<0, 0>>
    /\ \E k \in 1..Len(trace.pairs) :
         /\ trace.pairs[k].hit
         /\ trace.pairs[k].before[1].mass # trace.pairs[k].before[2].mass
         /\ trace.pairs[k].before[1].vx # 0
         /\ Energy2(trace.pairs[k].before[2]) # <<0, 0>>

\* C5, as claimed: two rocks that overlap before a physics step do not
\* overlap (beyond the rounding of the correction) after it.
C5_OverlapResolvedByStep ==
    trace.stepped =>
      \A i \in 1..Len(rocks), j \in 1..Len(rocks) :
        (i < j /\ CenterDistance(trace.start[i], trace.start[j])
                    < trace.start[i].radius + trace.start[j].radius)
        => CenterDistance(rocks[i], rocks[j])
             >= rocks[i].radius + rocks[j].radius - Tolerance

\* C5, amended: right after the positional correction of a colliding pair
\* the two centers are the sum of the radii apart (up to the rounding of
\* the correction).
C5_OverlapResolvedByCorrection ==
    \A k \in 1..Len(trace.pairs) :
      trace.pairs[k].hit =>
        CenterDistance(trace.pairs[k].after[1], trace.pairs[k].after[2])
          >= trace.pairs[k].minDistance - Tolerance

\* C5 witness: a pair was corrected in a step, and overlaps at its end
C5_CorrectedPairOverlapsAgain ==
    \E k \in 1..Len(trace.pairs) :
      /\ trace.pairs[k].hit
      /\ trace.pairs[k].distance > 0
      /\ CenterDistance(rocks[trace.pairs[k].i], rocks[trace.pairs[k].j])
           < trace.pairs[k].minDistance - Tolerance

\* C6, as claimed: one step takes the scenario's rock to x = 15 before the
\* clamp, and ends with x = 20 and vx = 3.
C6_LeftWallScenario ==
    (trace.stepped /\ trace.start = <<ScenarioRock>> /\ canvas.width = 400 * SCALE)
    => /\ trace.walls[1].before.x = 15 * SCALE
       /\ trace.walls[1].hit
       /\ rocks[1].x = 20 * SCALE
       /\ rocks[1].vx = 3 * SCALE

\* C6, amended: the air resistance is applied before the position update,
\* so one step takes the scenario's rock to x = 15.005 before the clamp
\* (vx = -4.995), and ends with x = 20 and vx = 4.995 * 0.6 = 2.997.
C6_LeftWallScenarioWithDrag ==
    (trace.stepped /\ trace.start = <<ScenarioRock>> /\ canvas.width = 400 * SCALE)
    => /\ trace.walls[1].before.x = 15005
       /\ trace.walls[1].before.vx = -4995
       /\ trace.walls[1].hit
       /\ rocks[1].x = 20 * SCALE
       /\ rocks[1].vx = 2997

\* C6 witness: the step has run on the scenario's rock alone
C6_ScenarioStepped ==
    /\ trace.stepped
    /\ trace.start = <<ScenarioRock>>
    /\ ScenarioRock.radius = 20 * SCALE
    /\ Bounce(ScenarioRock) = 600

\* C7: right after clearRocks the collection is empty and the reported
\* count is 0, and a physics step on the empty collection leaves it empty
\* and does nothing.
C7_ClearEmpties ==
    /\ lastTick.op = "clearRocks" => (rocks = <<>> /\ rockCount = 0)
    /\ (trace.stepped /\ trace.start = <<>>)
         => (rocks = <<>> /\ rockCount = 0 /\ trace.walls = <<>> /\ trace.pairs = <<>>)

\* C7 witness: clearRocks has just emptied a collection that held rocks
C7_ClearedRocks ==
    /\ lastTick.op = "clearRocks"
    /\ Len(trace.start) > 0

\* C8: a frame tick runs at most one physics step and then one render
\* pass, and at most one animation-frame callback is pending at any time:
\* the one animationRef names.
C8_OneLoopOneStep ==
    /\ Cardinality(pendingFrames) <= 1
    /\ \A f \in pendingFrames : f.id = animationRef /\ f.playing = isPlaying
    /\ lastTick.op = "frame" => (lastTick.steps <= 1 /\ lastTick.renders = 1)

\* C8 witness: a frame tick has run after the simulation was paused and
\* resumed, and one callback is pending
C8_FrameAfterToggles ==
    /\ toggles >= 2
    /\ lastTick.op = "frame"
    /\ lastTick.steps = 1
    /\ Cardinality(pendingFrames) = 1

\* C9: a physics step over n rocks tests every pair i < j exactly once, in
\* ascending order of i and then of j.
C9_PairEnumeration ==
    trace.stepped =>
      LET n == Len(trace.start)
          p == trace.pairs
      IN  /\ 2 * Len(p) = n * (n - 1)
          /\ \A k \in 1..Len(p) : 1 <= p[k].i /\ p[k].i < p[k].j /\ p[k].j <= n
          /\ \A k \in 1..Len(p), l \in 1..Len(p) :
               k < l => (p[k].i < p[l].i \/ (p[k].i = p[l].i /\ p[k].j < p[l].j))

\* C9 witness: a step has run over three rocks
C9_ThreeRocksStepped ==
    /\ trace.stepped
    /\ Len(trace.start) = 3
    /\ Len(trace.pairs) = 3

\* C10: a pair tested with equal centers collides along the positive x
\* axis: the first rock's x goes down by half the sum of the radii, the
\* second's goes up by as much, neither y changes, and the one division of
\* the response is by a positive mass sum.
C10_ZeroDistance ==
    \A k \in 1..Len(trace.pairs) :
      LET t == trace.pairs[k]
      IN  (t.before[1].x = t.before[2].x /\ t.before[1].y = t.before[2].y)
          => /\ t.distance = 0
             /\ t.hit
             /\ t.after[1].x = t.before[1].x - Quot(t.minDistance, 2)
             /\ t.after[2].x = t.before[2].x + Quot(t.minDistance, 2)
             /\ t.after[1].y = t.before[1].y
             /\ t.after[2].y = t.before[2].y
             /\ t.before[1].mass + t.before[2].mass > 0

\* C10 witness: a pair was tested with equal centers
C10_EqualCentersTested ==
    \E k \in 1..Len(trace.pairs) :
      /\ trace.pairs[k].before[1].x = trace.pairs[k].before[2].x
      /\ trace.pairs[k].before[1].y = trace.pairs[k].before[2].y
      /\ trace.pairs[k].minDistance > 0

====
